---------------------------- MODULE Spec2Model ----------------------------
(***************************************************************************)
(* submit-simulation.py: parse the command line, build the project, ask    *)
(* the simulation binary for its file suffix, render and write a batch     *)
(* job file, and submit it with sbatch or sh.                              *)
(*                                                                         *)
(* Text is modelled at two levels.  Values that the script only            *)
(* concatenates and compares (arguments, file names, the job text) are     *)
(* strings.  Values it takes apart (the output of the suffix query, the    *)
(* suffix, the host name) are sequences of one-character strings, and Str  *)
(* turns such a sequence into a string.                                    *)
(***************************************************************************)
EXTENDS Integers, Sequences, FiniteSets, TLC

(* ------------------------------ bounds --------------------------------- *)

\* longest argument list (after the program name) drawn from Tokens
MaxArgs == 3

\* longest suffix-query output drawn from OutChars
MaxOut == 3

\* number of invocations in a sequence of runs
MaxRuns == 3

(* ------------------------- program constants --------------------------- *)

whide_flag == "whide"

mkfac == "mkfac.py"

job_dir == "jobs"

simulate == "simulate.exe"

\* the substring looked for in the host name
ColoradoEdu == <<"c","o","l","o","r","a","d","o",".","e","d","u">>

\* sys.argv[0]: the path of the script, which is not the marker flag
Prog == "submit-simulation.py"

\* the two invocations that may overlap
Procs == {1, 2}

(* ------------------------------ inputs --------------------------------- *)

Tokens == {whide_flag, "5", "alpha"}

OutChars == {"a", ".", " "}

\* every sequence over S of length at most n
SeqsUpTo(S, n) == UNION {[1..k -> S] : k \in 0..n}

\* the argument list of the end-to-end scenario
ExampleArgs == <<"5", "alpha", "beta">>

\* the suffix-query output of the end-to-end scenario
ExampleOut == <<"f","o","o",".","b","a","r",".","n","e","t","\n">>

ArgLists == SeqsUpTo(Tokens, MaxArgs) \cup {ExampleArgs}

Outputs == SeqsUpTo(OutChars, MaxOut) \cup {ExampleOut}

\* small input sets, for the specifications that do not range over every
\* argument list or every output
FewArgLists == {<<"5">>, <<"7", "alpha">>}

FewOutputs == {<<"a", ".", "b", "\n">>, <<"a", "a", ".", "b">>, <<"\n">>}

Hosts == { <<"l","o","g","i","n",".","c","o","l","o","r","a","d","o",".","e","d","u">>,
           <<"l","o","c","a","l","h","o","s","t">>,
           <<"c","o","l","o","r","a","d","o",".","e","d","u","c","a","t","i","o","n">>,
           <<"c","o","l","o","r","a","d","o",".","e","d">> }

\* exit statuses a subprocess may return
Statuses == {0, 1}

(* --------------------------- text functions ---------------------------- *)

RECURSIVE Str(_)
\* bytes.decode / the string made of the characters of cs
Str(cs) == IF cs = <<>> THEN "" ELSE Head(cs) \o Str(Tail(cs))

RECURSIVE Join(_, _)
\* sep.join(parts) for strings
Join(parts, sep) ==
  IF parts = <<>> THEN ""
  ELSE IF Len(parts) = 1 THEN parts[1]
  ELSE parts[1] \o sep \o Join(Tail(parts), sep)

RECURSIVE JoinChars(_, _)
\* sep.join(parts) for character sequences, sep one character
JoinChars(parts, sep) ==
  IF parts = <<>> THEN <<>>
  ELSE IF Len(parts) = 1 THEN parts[1]
  ELSE parts[1] \o <<sep>> \o JoinChars(Tail(parts), sep)

\* the characters bytes.split() treats as separators (vertical tab, which
\* has no TLA+ escape, is left out)
Whitespace == {" ", "\t", "\n", "\r", "\f"}

RECURSIVE SplitWs(_, _)
\* bytes.split(): the maximal runs of non-whitespace characters, in order;
\* cur is the run being read
SplitWs(cs, cur) ==
  IF cs = <<>> THEN (IF cur = <<>> THEN <<>> ELSE <<cur>>)
  ELSE IF Head(cs) \in Whitespace
       THEN (IF cur = <<>> THEN <<>> ELSE <<cur>>) \o SplitWs(Tail(cs), <<>>)
       ELSE SplitWs(Tail(cs), Append(cur, Head(cs)))

RECURSIVE SplitOn(_, _, _)
\* str.split(sep): the pieces between the occurrences of sep, empty pieces
\* kept; cur is the piece being read
SplitOn(cs, sep, cur) ==
  IF cs = <<>> THEN <<cur>>
  ELSE IF Head(cs) = sep
       THEN <<cur>> \o SplitOn(Tail(cs), sep, <<>>)
       ELSE SplitOn(Tail(cs), sep, Append(cur, Head(cs)))

\* list[:-1]
DropLast(s) == IF s = <<>> THEN <<>> ELSE SubSeq(s, 1, Len(s) - 1)

\* needle in hay (substring test)
Contains(needle, hay) ==
  \E i \in 1..(Len(hay) - Len(needle) + 1) :
     SubSeq(hay, i, i + Len(needle) - 1) = needle

\* x in list
Member(x, s) == \E i \in DOMAIN s : s[i] = x

\* every occurrence of x removed instead of the first
RemoveAll(s, x) == SelectSeq(s, LAMBDA y : y # x)

\* list.remove(x): s without its first occurrence of x
Remove(s, x) ==
  LET i == CHOOSE i \in DOMAIN s : s[i] = x /\ \A j \in 1..(i - 1) : s[j] # x
  IN  SubSeq(s, 1, i - 1) \o SubSeq(s, i + 1, Len(s))

(* ------------------------------- state --------------------------------- *)

VARIABLES
  pc,                \* per process: the statement it is about to execute
  cmdline,           \* per process: the argument list it was started with
  argv,              \* per process: sys.argv
  whide,
  walltime_in_hours,
  sim_args,
  suffix,
  basename,
  job_file,
  job_text,
  submit_cmd,
  error,             \* per process: <<>> or <<exception, source line>>
  exit_code,         \* per process: exit status, -1 while running
  trace,             \* per process: what this run has done to the outside
  fs0,               \* per process: the filesystem when the run started
  fs,                \* the filesystem: directories and file contents
  fqdn,              \* socket.getfqdn()
  runs               \* invocations started so far

vars == <<pc, cmdline, argv, whide, walltime_in_hours, sim_args, suffix,
          basename, job_file, job_text, submit_cmd, error, exit_code, trace,
          fs0, fs, fqdn, runs>>

locals == <<whide, walltime_in_hours, sim_args, suffix, basename, job_file,
            job_text, submit_cmd>>

\* one thing a run does to the outside
Ev(op, stage, arg, status, out) ==
  [op |-> op, stage |-> stage, arg |-> arg, status |-> status, out |-> out]

Emit(p, e) == trace' = [trace EXCEPT ![p] = Append(@, e)]

\* an uncaught exception: traceback and exit status 1
Raise(p, exc, line) ==
  /\ pc' = [pc EXCEPT ![p] = "exited"]
  /\ error' = [error EXCEPT ![p] = <<exc, line>>]
  /\ exit_code' = [exit_code EXCEPT ![p] = 1]

Goto(p, label) ==
  /\ pc' = [pc EXCEPT ![p] = label]
  /\ UNCHANGED <<error, exit_code>>

EmptyFs == [dirs |-> {}, files |-> <<>>]

Init ==
  /\ pc = [p \in Procs |-> "idle"]
  /\ cmdline = [p \in Procs |-> <<>>]
  /\ argv = [p \in Procs |-> <<>>]
  /\ whide = [p \in Procs |-> FALSE]
  /\ walltime_in_hours = [p \in Procs |-> ""]
  /\ sim_args = [p \in Procs |-> <<>>]
  /\ suffix = [p \in Procs |-> <<>>]
  /\ basename = [p \in Procs |-> ""]
  /\ job_file = [p \in Procs |-> ""]
  /\ job_text = [p \in Procs |-> ""]
  /\ submit_cmd = [p \in Procs |-> ""]
  /\ error = [p \in Procs |-> <<>>]
  /\ exit_code = [p \in Procs |-> -1]
  /\ trace = [p \in Procs |-> <<>>]
  /\ fs0 = [p \in Procs |-> EmptyFs]
  /\ fs \in {EmptyFs, [dirs |-> {job_dir}, files |-> <<>>]}
  /\ fqdn \in Hosts
  /\ runs = 0

(* ------------------------------ the script ----------------------------- *)

\* the interpreter starts the script with args after the program name
Start(p, args, maxruns) ==
  /\ pc[p] \in {"idle", "exited"}
  /\ runs < maxruns
  /\ runs' = runs + 1
  /\ \E a \in args :
       /\ cmdline' = [cmdline EXCEPT ![p] = <<Prog>> \o a]
       /\ argv' = [argv EXCEPT ![p] = <<Prog>> \o a]
  /\ pc' = [pc EXCEPT ![p] = "check_args"]
  /\ whide' = [whide EXCEPT ![p] = FALSE]
  /\ walltime_in_hours' = [walltime_in_hours EXCEPT ![p] = ""]
  /\ sim_args' = [sim_args EXCEPT ![p] = <<>>]
  /\ suffix' = [suffix EXCEPT ![p] = <<>>]
  /\ basename' = [basename EXCEPT ![p] = ""]
  /\ job_file' = [job_file EXCEPT ![p] = ""]
  /\ job_text' = [job_text EXCEPT ![p] = ""]
  /\ submit_cmd' = [submit_cmd EXCEPT ![p] = ""]
  /\ error' = [error EXCEPT ![p] = <<>>]
  /\ exit_code' = [exit_code EXCEPT ![p] = -1]
  /\ trace' = [trace EXCEPT ![p] = <<>>]
  /\ fs0' = [fs0 EXCEPT ![p] = fs]
  /\ UNCHANGED <<fs, fqdn>>

\* the text print() writes at lines 11-12: format() applies to the second
\* literal only, which has no placeholder, and whide_flag is a second
\* argument of print
UsageText ==
  "usage: {} [{}] walltime_in_hours" \o " [simulation arguments]" \o " " \o whide_flag

\* lines 10-13
CheckArgs(p) ==
  /\ pc[p] = "check_args"
  /\ IF Len(argv[p]) < 2
     THEN /\ Emit(p, Ev("print", "usage", <<UsageText>>, 0, <<>>))
          /\ pc' = [pc EXCEPT ![p] = "exited"]
          /\ exit_code' = [exit_code EXCEPT ![p] = 1]
          /\ UNCHANGED error
     ELSE /\ Goto(p, "parse_flag")
          /\ UNCHANGED trace
  /\ UNCHANGED <<cmdline, argv, locals, fs0, fs, fqdn, runs>>

\* lines 15-16
ParseFlag(p) ==
  /\ pc[p] = "parse_flag"
  /\ whide' = [whide EXCEPT ![p] = Member(whide_flag, argv[p])]
  /\ argv' = [argv EXCEPT ![p] =
                IF Member(whide_flag, argv[p]) THEN Remove(argv[p], whide_flag)
                ELSE argv[p]]
  /\ Goto(p, "read_args")
  /\ UNCHANGED <<cmdline, walltime_in_hours, sim_args, suffix, basename,
                 job_file, job_text, submit_cmd, trace, fs0, fs, fqdn, runs>>

\* lines 18-19
ReadArgs(p) ==
  /\ pc[p] = "read_args"
  /\ IF Len(argv[p]) < 2
     THEN /\ Raise(p, "IndexError", 18)
          /\ UNCHANGED <<walltime_in_hours, sim_args>>
     ELSE /\ walltime_in_hours' = [walltime_in_hours EXCEPT ![p] = argv[p][2]]
          /\ sim_args' = [sim_args EXCEPT ![p] = SubSeq(argv[p], 3, Len(argv[p]))]
          /\ Goto(p, "build")
  /\ UNCHANGED <<cmdline, argv, whide, suffix, basename, job_file, job_text,
                 submit_cmd, trace, fs0, fs, fqdn, runs>>

\* the build command of line 23
BuildCmd(w) == <<"./" \o mkfac>> \o (IF w THEN <<whide_flag>> ELSE <<>>)

\* lines 22-23: print, then subprocess.call starts the build; a command
\* that cannot be started raises OSError
BuildCall(p) ==
  /\ pc[p] = "build"
  /\ \E started \in BOOLEAN :
       IF started
       THEN /\ trace' = [trace EXCEPT ![p] =
                           @ \o << Ev("print", "build", <<"building project">>, 0, <<>>),
                                   Ev("spawn", "build", BuildCmd(whide[p]), 0, <<>>) >>]
            /\ Goto(p, "build_wait")
       ELSE /\ trace' = [trace EXCEPT ![p] =
                           @ \o << Ev("print", "build", <<"building project">>, 0, <<>>),
                                   Ev("spawn_failed", "build", BuildCmd(whide[p]), 0, <<>>) >>]
            /\ Raise(p, "OSError", 23)
  /\ UNCHANGED <<cmdline, argv, locals, fs0, fs, fqdn, runs>>

\* subprocess.check_call in place of subprocess.call
CallRaises_CheckCall(status) == status # 0

\* what subprocess.call does with the status its command returned: it
\* returns it, and line 23 / line 56 drop it
CallRaises(status) == FALSE

\* the build run again until it succeeds
BuildWait_Retry(p) ==
  /\ pc[p] = "build_wait"
  /\ \E status \in Statuses :
       /\ Emit(p, Ev("wait", "build", <<>>, status, <<>>))
       /\ IF status # 0 THEN Goto(p, "build") ELSE Goto(p, "suffix")
  /\ UNCHANGED <<cmdline, argv, locals, fs0, fs, fqdn, runs>>

\* line 23: subprocess.call waits for the build and returns its status
BuildWait(p) ==
  /\ pc[p] = "build_wait"
  /\ \E status \in Statuses :
       /\ Emit(p, Ev("wait", "build", <<>>, status, <<>>))
       /\ IF CallRaises(status)
          THEN Raise(p, "CalledProcessError", 23)
          ELSE Goto(p, "suffix")
  /\ UNCHANGED <<cmdline, argv, locals, fs0, fs, fqdn, runs>>

\* line 26
SuffixCmd(args) == "./simulate.exe --suffix " \o Join(args, " ")

\* line 27: subprocess.check_output(..., shell = True) starts the shell
SuffixCall(p) ==
  /\ pc[p] = "suffix"
  /\ \E started \in BOOLEAN :
       IF started
       THEN /\ Emit(p, Ev("spawn", "suffix", <<"/bin/sh", "-c", SuffixCmd(sim_args[p])>>, 0, <<>>))
            /\ Goto(p, "suffix_wait")
       ELSE /\ Emit(p, Ev("spawn_failed", "suffix", <<"/bin/sh", "-c", SuffixCmd(sim_args[p])>>, 0, <<>>))
            /\ Raise(p, "OSError", 27)
  /\ UNCHANGED <<cmdline, argv, locals, fs0, fs, fqdn, runs>>

\* the status of the suffix query dropped like that of the build
CheckOutputRaises_Never(status) == FALSE

\* what subprocess.check_output does with the status its command returned
CheckOutputRaises(status) == status # 0

\* line 27: check_output waits and returns stdout; .split()[-1].decode()
SuffixWait(p, outs) ==
  /\ pc[p] = "suffix_wait"
  /\ \E status \in Statuses, out \in outs :
       /\ Emit(p, Ev("wait", "suffix", <<>>, status, out))
       /\ IF CheckOutputRaises(status)
          THEN /\ Raise(p, "CalledProcessError", 27)
               /\ UNCHANGED suffix
          ELSE IF SplitWs(out, <<>>) = <<>>
          THEN /\ Raise(p, "IndexError", 27)
               /\ UNCHANGED suffix
          ELSE /\ suffix' = [suffix EXCEPT ![p] =
                               SplitWs(out, <<>>)[Len(SplitWs(out, <<>>))]]
               /\ Goto(p, "basename")
  /\ UNCHANGED <<cmdline, argv, whide, walltime_in_hours, sim_args, basename,
                 job_file, job_text, submit_cmd, fs0, fs, fqdn, runs>>

\* the first piece of the suffix kept instead of all but the last
Basename_FirstPiece(sfx) == "network" \o Str(SplitOn(sfx, ".", <<>>)[1])

\* line 28
Basename(sfx) == "network" \o Str(JoinChars(DropLast(SplitOn(sfx, ".", <<>>)), "."))

\* line 29
JobFile(b) == job_dir \o "/" \o b \o ".sh"

\* lines 28-29
DeriveNames(p) ==
  /\ pc[p] = "basename"
  /\ basename' = [basename EXCEPT ![p] = Basename(suffix[p])]
  /\ job_file' = [job_file EXCEPT ![p] = JobFile(Basename(suffix[p]))]
  /\ Goto(p, "render")
  /\ UNCHANGED <<cmdline, argv, whide, walltime_in_hours, sim_args, suffix,
                 job_text, submit_cmd, trace, fs0, fs, fqdn, runs>>

\* the first two options in the other order, minutes left out of the time
Options_Reordered(b, h) ==
  << <<"error", b \o ".err">>,
     <<"output", b \o ".out">>,
     <<"time", h \o ":00">>,
     <<"nodes", ToString(1)>>,
     <<"ntasks", ToString(1)>>,
     <<"ntasks-per-node", ToString(1)>> >>

\* lines 32-37; "{}".format(1) is "1"
Options(b, h) ==
  << <<"output", b \o ".out">>,
     <<"error", b \o ".err">>,
     <<"time", h \o ":00:00">>,
     <<"nodes", ToString(1)>>,
     <<"ntasks", ToString(1)>>,
     <<"ntasks-per-node", ToString(1)>> >>

RECURSIVE OptionLines(_)
\* lines 41-42: one line per option, in the order of the list
OptionLines(opts) ==
  IF opts = <<>> THEN ""
  ELSE "#SBATCH --" \o opts[1][1] \o " " \o opts[1][2] \o "\n" \o OptionLines(Tail(opts))

\* lines 40-44
JobText(b, h, args) ==
  "#!/usr/bin/env sh\n" \o OptionLines(Options(b, h)) \o "\n"
    \o "./" \o simulate \o " " \o Join(args, " ") \o "\n"

\* lines 32-44
Render(p) ==
  /\ pc[p] = "render"
  /\ job_text' = [job_text EXCEPT ![p] =
                    JobText(basename[p], walltime_in_hours[p], sim_args[p])]
  /\ Goto(p, "isdir")
  /\ UNCHANGED <<cmdline, argv, whide, walltime_in_hours, sim_args, suffix,
                 basename, job_file, submit_cmd, trace, fs0, fs, fqdn, runs>>

\* makedirs called without looking
NeedsMakedirs_Always(f) == TRUE

\* line 46: whether makedirs is called
NeedsMakedirs(f) == job_dir \notin f.dirs

\* line 46
IsDir(p) ==
  /\ pc[p] = "isdir"
  /\ IF NeedsMakedirs(fs) THEN Goto(p, "makedirs") ELSE Goto(p, "open")
  /\ UNCHANGED <<cmdline, argv, locals, trace, fs0, fs, fqdn, runs>>

\* line 47: os.makedirs without exist_ok raises when the directory exists
Makedirs(p) ==
  /\ pc[p] = "makedirs"
  /\ IF job_dir \in fs.dirs
     THEN /\ Raise(p, "FileExistsError", 47)
          /\ UNCHANGED <<fs, trace>>
     ELSE /\ fs' = [fs EXCEPT !.dirs = @ \cup {job_dir}]
          /\ Emit(p, Ev("makedirs", "write", <<job_dir>>, 0, <<>>))
          /\ Goto(p, "open")
  /\ UNCHANGED <<cmdline, argv, locals, fs0, fqdn, runs>>

\* A file's content is kept as layers, the most recent write first: a write
\* of text at offset 0 replaces the first Len(text) characters, so what
\* remains visible of an older, longer write is its tail.  A file holding
\* exactly text t is <<t>>; an empty file is <<>>.
WriteAt0(layers, text) ==
  <<text>> \o SelectSeq(layers, LAMBDA l : Len(l) > Len(text))

\* files with path set to content
Store(files, path, content) ==
  [q \in DOMAIN files \cup {path} |-> IF q = path THEN content ELSE files[q]]

\* line 48: open(job_file, "w") creates or truncates the file
Open(p) ==
  /\ pc[p] = "open"
  /\ IF job_dir \notin fs.dirs
     THEN /\ Raise(p, "FileNotFoundError", 48)
          /\ UNCHANGED <<fs, trace>>
     ELSE /\ fs' = [fs EXCEPT !.files = Store(@, job_file[p], <<>>)]
          /\ Emit(p, Ev("open", "write", <<job_file[p]>>, 0, <<>>))
          /\ Goto(p, "write")
  /\ UNCHANGED <<cmdline, argv, locals, fs0, fqdn, runs>>

\* lines 48-49: f.write buffers the text, leaving the with block flushes it
\* at offset 0 and closes the file
WriteClose(p) ==
  /\ pc[p] = "write"
  /\ fs' = [fs EXCEPT !.files = Store(@, job_file[p], WriteAt0(@[job_file[p]], job_text[p]))]
  /\ Emit(p, Ev("write", "write", <<job_file[p], job_text[p]>>, 0, <<>>))
  /\ Goto(p, "detect")
  /\ UNCHANGED <<cmdline, argv, locals, fs0, fqdn, runs>>

\* the host name compared for equality instead of searched
SubmitCmd_Equals(host) == IF host = ColoradoEdu THEN "sbatch" ELSE "sh"

\* lines 51-54
SubmitCmd(host) == IF Contains(ColoradoEdu, host) THEN "sbatch" ELSE "sh"

\* lines 51-54
Detect(p) ==
  /\ pc[p] = "detect"
  /\ submit_cmd' = [submit_cmd EXCEPT ![p] = SubmitCmd(fqdn)]
  /\ Goto(p, "submit")
  /\ UNCHANGED <<cmdline, argv, whide, walltime_in_hours, sim_args, suffix,
                 basename, job_file, job_text, trace, fs0, fs, fqdn, runs>>

\* line 56: subprocess.call starts the submission command
SubmitCall(p) ==
  /\ pc[p] = "submit"
  /\ \E started \in BOOLEAN :
       IF started
       THEN /\ Emit(p, Ev("spawn", "submit", <<submit_cmd[p], job_file[p]>>, 0, <<>>))
            /\ Goto(p, "submit_wait")
       ELSE /\ Emit(p, Ev("spawn_failed", "submit", <<submit_cmd[p], job_file[p]>>, 0, <<>>))
            /\ Raise(p, "OSError", 56)
  /\ UNCHANGED <<cmdline, argv, locals, fs0, fs, fqdn, runs>>

\* line 56: subprocess.call returns the status, the script ends
SubmitWait(p) ==
  /\ pc[p] = "submit_wait"
  /\ \E status \in Statuses :
       /\ Emit(p, Ev("wait", "submit", <<>>, status, <<>>))
       /\ IF CallRaises(status)
          THEN Raise(p, "CalledProcessError", 56)
          ELSE /\ pc' = [pc EXCEPT ![p] = "exited"]
               /\ exit_code' = [exit_code EXCEPT ![p] = 0]
               /\ UNCHANGED error
  /\ UNCHANGED <<cmdline, argv, locals, fs0, fs, fqdn, runs>>

(* --------------------------- specifications ---------------------------- *)

\* the process of the specifications with one invocation at a time
Single == {1}

\* one invocation, every argument list
Next ==
  \E p \in Single :
    \/ Start(p, ArgLists, 1)
    \/ CheckArgs(p)
    \/ ParseFlag(p)
    \/ ReadArgs(p)
    \/ BuildCall(p)
    \/ BuildWait(p)
    \/ SuffixCall(p)
    \/ SuffixWait(p, FewOutputs \cup {ExampleOut})
    \/ DeriveNames(p)
    \/ Render(p)
    \/ IsDir(p)
    \/ Makedirs(p)
    \/ Open(p)
    \/ WriteClose(p)
    \/ Detect(p)
    \/ SubmitCall(p)
    \/ SubmitWait(p)

Spec == Init /\ [][Next]_vars

\* one invocation, every suffix-query output
OutStart(p) == Start(p, FewArgLists \cup {ExampleArgs}, 1)

OutNext ==
  \E p \in Single :
    \/ OutStart(p)
    \/ CheckArgs(p)
    \/ ParseFlag(p)
    \/ ReadArgs(p)
    \/ BuildCall(p)
    \/ BuildWait(p)
    \/ SuffixCall(p)
    \/ SuffixWait(p, Outputs)
    \/ DeriveNames(p)
    \/ Render(p)
    \/ IsDir(p)
    \/ Makedirs(p)
    \/ Open(p)
    \/ WriteClose(p)
    \/ Detect(p)
    \/ SubmitCall(p)
    \/ SubmitWait(p)

OutSpec == Init /\ [][OutNext]_vars

\* complete, non-overlapping runs: the next invocation starts when the
\* previous one has exited
SeqStart(p) == Start(p, FewArgLists, MaxRuns)

SeqNext ==
  \E p \in Single :
    \/ SeqStart(p)
    \/ CheckArgs(p)
    \/ ParseFlag(p)
    \/ ReadArgs(p)
    \/ BuildCall(p)
    \/ BuildWait(p)
    \/ SuffixCall(p)
    \/ SuffixWait(p, FewOutputs)
    \/ DeriveNames(p)
    \/ Render(p)
    \/ IsDir(p)
    \/ Makedirs(p)
    \/ Open(p)
    \/ WriteClose(p)
    \/ Detect(p)
    \/ SubmitCall(p)
    \/ SubmitWait(p)

SeqSpec == Init /\ [][SeqNext]_vars

\* two invocations that may overlap, interleaved statement by statement
ConcStart(p) == pc[p] = "idle" /\ Start(p, FewArgLists, Cardinality(Procs))

ConcNext ==
  \E p \in Procs :
    \/ ConcStart(p)
    \/ CheckArgs(p)
    \/ ParseFlag(p)
    \/ ReadArgs(p)
    \/ BuildCall(p)
    \/ BuildWait(p)
    \/ SuffixCall(p)
    \/ SuffixWait(p, FewOutputs)
    \/ DeriveNames(p)
    \/ Render(p)
    \/ IsDir(p)
    \/ Makedirs(p)
    \/ Open(p)
    \/ WriteClose(p)
    \/ Detect(p)
    \/ SubmitCall(p)
    \/ SubmitWait(p)

ConcSpec == Init /\ [][ConcNext]_vars

(* ------------------------------ properties ----------------------------- *)

\* the events of p's run
Events(p) == {trace[p][i] : i \in DOMAIN trace[p]}

\* p's run has performed op
Did(p, op) == \E e \in Events(p) : e.op = op

\* p's run has started, or tried to start, the command of stage
Tried(p, stage) ==
  \E e \in Events(p) : e.stage = stage /\ e.op \in {"spawn", "spawn_failed"}

UsageEvent == Ev("print", "usage", <<UsageText>>, 0, <<>>)

\* the command line carries no walltime value
NoWalltime(cl) == Tail(cl) = <<>> \/ Tail(cl) = <<whide_flag>>

\* C1: a run whose argument list carries no walltime value (no argument, or
\* the marker flag alone) ends by printing the usage message and exiting
\* with status 1, having done nothing else: no build, no suffix query, no
\* directory creation, no file write, no submission.
C1_UsageExit ==
  \A p \in Procs :
    (pc[p] = "exited" /\ NoWalltime(cmdline[p])) =>
       /\ trace[p] = <<UsageEvent>>
       /\ exit_code[p] = 1
       /\ error[p] = <<>>
       /\ fs = fs0[p]

\* a subprocess event that reports a failure
StartFailed(e) == e.op = "spawn_failed"

NonZero(e) == e.op = "wait" /\ e.status # 0

\* the run went on after its event number i: something followed it, or the
\* script stands at the statement label
WentOn(p, i, label) == i < Len(trace[p]) \/ pc[p] = label

\* the run ended normally
EndedNormally(p) == pc[p] = "exited" /\ exit_code[p] = 0 /\ error[p] = <<>>

\* C2 as stated: neither a build or submission command that cannot be
\* started nor one that returns a non-zero status halts the run, and an
\* exception of a subprocess call comes from the suffix query only.
C2_NoFailureHalts ==
  \A p \in Procs :
    /\ \A i \in DOMAIN trace[p] :
         LET e == trace[p][i] IN
         /\ (e.stage = "build" /\ (StartFailed(e) \/ NonZero(e))) => WentOn(p, i, "suffix")
         /\ (e.stage = "submit" /\ (StartFailed(e) \/ NonZero(e))) => EndedNormally(p)
    /\ (error[p] # <<>> /\ error[p][1] \in {"OSError", "CalledProcessError"})
          => error[p][2] = 27

\* C2 amended: a build or submission command that returns a non-zero status
\* does not halt the run (after the build returns, whatever its status,
\* the suffix query is started next; after the submission returns the run
\* ends normally, status 0), and CalledProcessError comes from the suffix
\* query only; a build, suffix-query or submission command that cannot be
\* started raises OSError and ends the run with status 1.
C2_NonZeroNeverHalts ==
  \A p \in Procs :
    /\ \A i \in DOMAIN trace[p] :
         LET e == trace[p][i] IN
         /\ (e.stage = "build" /\ e.op = "wait") =>
               /\ WentOn(p, i, "suffix")
               /\ i < Len(trace[p]) => trace[p][i + 1].stage = "suffix"
         /\ (e.stage = "submit" /\ e.op = "wait") => i = Len(trace[p]) /\ EndedNormally(p)
         /\ StartFailed(e) =>
               /\ i = Len(trace[p])
               /\ pc[p] = "exited"
               /\ exit_code[p] = 1
               /\ error[p] # <<>>
               /\ error[p][1] = "OSError"
    /\ (error[p] # <<>> /\ error[p][1] = "CalledProcessError") => error[p][2] = 27
    /\ EndedNormally(p) =>
          /\ Tried(p, "suffix")
          /\ Did(p, "write")
          /\ Tried(p, "submit")

\* a run whose build and submission both returned non-zero and that ended
\* normally
C2_Witness ==
  \E p \in Procs :
    /\ EndedNormally(p)
    /\ \E e \in Events(p) : e.stage = "build" /\ NonZero(e)
    /\ \E e \in Events(p) : e.stage = "submit" /\ NonZero(e)
    /\ Did(p, "write")

\* the output holds no token
NoToken(out) == \A k \in DOMAIN out : out[k] \in Whitespace

\* the suffix query of p's run failed: not started, non-zero, or no token
SuffixFailed(p) ==
  \E e \in Events(p) :
    /\ e.stage = "suffix"
    /\ \/ StartFailed(e)
       \/ NonZero(e)
       \/ e.op = "wait" /\ NoToken(e.out)

\* C3: when the suffix query fails or prints no token, the run ends with a
\* non-zero exit status and has neither created the job directory nor
\* opened or written a job file nor started a submission command.
C3_SuffixFailureAborts ==
  \A p \in Procs :
    SuffixFailed(p) =>
       /\ pc[p] = "exited"
       /\ exit_code[p] > 0
       /\ ~Did(p, "makedirs") /\ ~Did(p, "open") /\ ~Did(p, "write")
       /\ ~Tried(p, "submit")
       /\ fs = fs0[p]

\* a suffix query that returned non-zero although it printed a token
C3_Witness ==
  \E p \in Procs :
    /\ pc[p] = "exited"
    /\ \E e \in Events(p) : e.stage = "suffix" /\ NonZero(e) /\ ~NoToken(e.out)

\* p's run has executed lines 15-16
Parsed(p) == pc[p] \notin {"idle", "check_args", "parse_flag"} /\ Len(cmdline[p]) >= 2

\* s without its element number i
Without(s, i) == [k \in 1..(Len(s) - 1) |-> IF k < i THEN s[k] ELSE s[k + 1]]

\* C4: when the marker flag occurs among the arguments, parsing removes
\* exactly one occurrence of it and keeps the other arguments in order;
\* when it does not occur, nothing is removed.  The first remaining argument
\* is the walltime and the arguments after it are the simulation arguments,
\* unchanged and in order.
C4_Parse ==
  \A p \in Procs :
    Parsed(p) =>
      LET a0 == Tail(cmdline[p])
          a1 == Tail(argv[p])
      IN  /\ argv[p][1] = cmdline[p][1]
          /\ IF \E i \in DOMAIN a0 : a0[i] = whide_flag
             THEN /\ whide[p]
                  /\ \E i \in DOMAIN a0 : a0[i] = whide_flag /\ a1 = Without(a0, i)
             ELSE /\ ~whide[p]
                  /\ a1 = a0
          /\ (pc[p] # "read_args" /\ a1 # <<>>) =>
                /\ walltime_in_hours[p] = a1[1]
                /\ sim_args[p] = Without(a1, 1)

\* the flag given twice, around the walltime, and the arguments read
C4_Witness ==
  \E p \in Procs :
    /\ cmdline[p] = <<Prog, whide_flag, "5", whide_flag>>
    /\ pc[p] = "build"
    /\ walltime_in_hours[p] = "5"
    /\ sim_args[p] = <<whide_flag>>

\* the position of the last "." of s, 0 when there is none
LastDot(s) ==
  IF \E i \in DOMAIN s : s[i] = "."
  THEN CHOOSE i \in DOMAIN s : s[i] = "." /\ \A j \in (i + 1)..Len(s) : s[j] # "."
  ELSE 0

\* tok is the last whitespace-delimited token of out
IsLastToken(tok, out) ==
  \E i \in DOMAIN out, j \in DOMAIN out :
    /\ i <= j
    /\ tok = [k \in 1..(j - i + 1) |-> out[i + k - 1]]
    /\ \A k \in i..j : out[k] \notin Whitespace
    /\ \A k \in (j + 1)..Len(out) : out[k] \in Whitespace
    /\ i = 1 \/ out[i - 1] \in Whitespace

\* C5: the suffix is the last whitespace-delimited token of the query's
\* output; the basename is "network" followed by the suffix up to, and
\* without, its last "." (nothing when the suffix has no "."), and the job
\* file is jobs/<basename>.sh; suffix foo.bar.net gives networkfoo.bar and
\* jobs/networkfoo.bar.sh.
C5_Basename ==
  \A p \in Procs :
    basename[p] # "" =>
      /\ \E e \in Events(p) : e.stage = "suffix" /\ e.op = "wait" /\ IsLastToken(suffix[p], e.out)
      /\ basename[p] = "network" \o Str([k \in 1..(LastDot(suffix[p]) - 1) |-> suffix[p][k]])
      /\ LastDot(suffix[p]) = 0 => basename[p] = "network"
      /\ job_file[p] = "jobs/" \o basename[p] \o ".sh"
      /\ suffix[p] = <<"f","o","o",".","b","a","r",".","n","e","t">> =>
            /\ basename[p] = "networkfoo.bar"
            /\ job_file[p] = "jobs/networkfoo.bar.sh"

\* the names derived from the suffix foo.bar.net
C5_Witness ==
  \E p \in Procs :
    /\ suffix[p] = <<"f","o","o",".","b","a","r",".","n","e","t">>
    /\ basename[p] = "networkfoo.bar"
    /\ job_file[p] = "jobs/networkfoo.bar.sh"

RECURSIVE Spaced(_, _)
\* the first n elements of args, separated by single spaces
Spaced(args, n) ==
  IF n = 0 THEN ""
  ELSE IF n = 1 THEN args[1]
  ELSE Spaced(args, n - 1) \o " " \o args[n]

\* C6: the job text is the shebang line, the six #SBATCH lines output,
\* error, time, nodes, ntasks, ntasks-per-node in this order, a blank line
\* and the invocation line, and is determined by the basename, the walltime
\* and the simulation arguments.
C6_JobText ==
  \A p \in Procs :
    job_text[p] # "" =>
      /\ job_text[p] =
           "#!/usr/bin/env sh\n"
           \o "#SBATCH --output " \o basename[p] \o ".out\n"
           \o "#SBATCH --error " \o basename[p] \o ".err\n"
           \o "#SBATCH --time " \o walltime_in_hours[p] \o ":00:00\n"
           \o "#SBATCH --nodes 1\n"
           \o "#SBATCH --ntasks 1\n"
           \o "#SBATCH --ntasks-per-node 1\n"
           \o "\n"
           \o "./simulate.exe " \o Spaced(sim_args[p], Len(sim_args[p])) \o "\n"
      /\ (basename[p] = "networkfoo.bar" /\ walltime_in_hours[p] = "5"
            /\ sim_args[p] = <<"alpha", "beta">>) =>
           job_text[p] = "#!/usr/bin/env sh\n#SBATCH --output networkfoo.bar.out\n#SBATCH --error networkfoo.bar.err\n#SBATCH --time 5:00:00\n#SBATCH --nodes 1\n#SBATCH --ntasks 1\n#SBATCH --ntasks-per-node 1\n\n./simulate.exe alpha beta\n"

\* the job text of the end-to-end scenario
C6_Witness ==
  \E p \in Procs :
    /\ basename[p] = "networkfoo.bar"
    /\ walltime_in_hours[p] = "5"
    /\ sim_args[p] = <<"alpha", "beta">>
    /\ job_text[p] # ""

\* the host name holds colorado.edu at some position
HasDomain(host) ==
  \E i \in 0..Len(host) :
    \A k \in DOMAIN ColoradoEdu : i + k <= Len(host) /\ host[i + k] = ColoradoEdu[k]

\* C7: the submission command is sbatch exactly when the host name contains
\* colorado.edu, and sh otherwise; it is started with one argument, the path
\* jobs/<basename>.sh of the job file this run has written.
C7_Submit ==
  \A p \in Procs :
    \A i \in DOMAIN trace[p] :
      LET e == trace[p][i] IN
      (e.stage = "submit" /\ e.op \in {"spawn", "spawn_failed"}) =>
         /\ Len(e.arg) = 2
         /\ e.arg[1] = "sbatch" <=> HasDomain(fqdn)
         /\ e.arg[1] = "sh" <=> ~HasDomain(fqdn)
         /\ e.arg[2] = "jobs/" \o basename[p] \o ".sh"
         /\ \E j \in 1..(i - 1) :
              /\ trace[p][j].op = "write"
              /\ trace[p][j].arg[1] = e.arg[2]
         /\ fs.files[e.arg[2]] = <<job_text[p]>>

\* sbatch started on a host whose name only contains colorado.edu
C7_Witness ==
  \E p \in Procs :
    /\ fqdn = <<"l","o","g","i","n",".","c","o","l","o","r","a","d","o",".","e","d","u">>
    /\ \E e \in Events(p) : e.op = "spawn" /\ e.stage = "submit" /\ e.arg[1] = "sbatch"

\* p's run has flushed its job file
Written(p) == Did(p, "write")

\* C8: in a sequence of complete runs, a run that starts with the jobs
\* directory present does not call makedirs and does not fail at line 47;
\* once a run has written its job file, that file holds exactly the text the
\* run rendered, whatever it held before, and every other job file is as it
\* was when the run started.
C8_SequentialRuns ==
  \A p \in Single :
    /\ (pc[p] # "idle" /\ job_dir \in fs0[p].dirs) =>
          /\ ~Did(p, "makedirs")
          /\ error[p] # <<"FileExistsError", 47>>
    /\ Written(p) =>
          /\ job_file[p] \in DOMAIN fs.files
          /\ fs.files[job_file[p]] = <<job_text[p]>>
          /\ DOMAIN fs.files = DOMAIN fs0[p].files \cup {job_file[p]}
          /\ \A q \in DOMAIN fs0[p].files :
                q # job_file[p] => fs.files[q] = fs0[p].files[q]

\* a third run that has replaced the different text an earlier run left in
\* its job file, beside the job file of another basename
C8_Witness ==
  \E p \in Single :
    /\ Written(p)
    /\ job_dir \in fs0[p].dirs
    /\ job_file[p] \in DOMAIN fs0[p].files
    /\ fs0[p].files[job_file[p]] # <<job_text[p]>>
    /\ fs0[p].files[job_file[p]] # <<>>
    /\ \E q \in DOMAIN fs0[p].files : q # job_file[p]
    /\ pc[p] = "exited"

\* the place of an event in the pipeline, 0 for the events beside it
Phase(e) ==
  CASE e.stage = "build" /\ e.op \in {"spawn", "spawn_failed"} -> 1
    [] e.stage = "build" /\ e.op = "wait" -> 2
    [] e.stage = "suffix" /\ e.op \in {"spawn", "spawn_failed"} -> 3
    [] e.stage = "suffix" /\ e.op = "wait" -> 4
    [] e.op = "open" -> 5
    [] e.op = "write" -> 6
    [] e.stage = "submit" /\ e.op \in {"spawn", "spawn_failed"} -> 7
    [] e.stage = "submit" /\ e.op = "wait" -> 8
    [] OTHER -> 0

\* an event with phase n precedes event number i of p's run
Before(p, i, n) == \E j \in 1..(i - 1) : Phase(trace[p][j]) = n /\ trace[p][j].op # "spawn_failed"

\* C9: in every run the stages occur in the order build, suffix query,
\* job-file write, submission, each at most once: the suffix query is
\* started only after the build has returned, the job file is opened only
\* after the suffix query has returned, and the submission command is
\* started only after the job file has been written.
C9_StageOrder ==
  \A p \in Procs :
    /\ \A i \in DOMAIN trace[p], j \in DOMAIN trace[p] :
          (i < j /\ Phase(trace[p][i]) # 0 /\ Phase(trace[p][j]) # 0)
             => Phase(trace[p][i]) < Phase(trace[p][j])
    /\ \A i \in DOMAIN trace[p] :
          /\ Phase(trace[p][i]) = 3 => Before(p, i, 2)
          /\ Phase(trace[p][i]) = 5 => Before(p, i, 4)
          /\ Phase(trace[p][i]) = 6 => Before(p, i, 5)
          /\ Phase(trace[p][i]) = 7 => Before(p, i, 6)
          /\ Phase(trace[p][i]) = 8 => Before(p, i, 7)

\* a run that went through every stage
C9_Witness ==
  \E p \in Procs :
    /\ pc[p] = "exited"
    /\ \A n \in 1..8 : \E e \in Events(p) : Phase(e) = n

\* C10: two invocations started while there is no jobs directory both get
\* past lines 46-47, under every interleaving: makedirs does not fail
\* because the other invocation created the directory after the test.
C10_NoMakedirsRace ==
  (\A q \in Procs : pc[q] # "idle" /\ job_dir \notin fs0[q].dirs) =>
     \A p \in Procs : error[p] # <<"FileExistsError", 47>>

=============================================================================
